---- MODULE Spec2Model ----
(***************************************************************************)
(* Cache / sync consistency subsystem of the document chatbot (app.py).    *)
(*                                                                         *)
(* State: the Streamlit session (qa, current_cache_name), the              *)
(* persistence directory (per cache name: config.json and the index        *)
(* artifact), the remote SharePoint item behind the sharing link, and the  *)
(* position of the script run that is in progress (pc, op).                *)
(*                                                                         *)
(* Optional values (Python None) are sequences of length at most one.      *)
(* Strings that the code slices (the download URL) are records of their    *)
(* first 32 characters (head) and the rest (tail).                         *)
(* The settings actions model the authorized branch of page_settings.      *)
(***************************************************************************)
EXTENDS Integers, Sequences, FiniteSets, TLC

VARIABLES qa, current_cache_name, disk_cfg, disk_idx, remote, nchg, nreb, pc, op,
          px, py, pres, pmode

session == <<qa, current_cache_name>>
disk    == <<disk_cfg, disk_idx>>
env     == <<remote, nchg, nreb>>
pure    == <<px, py, pres, pmode>>
vars    == <<qa, current_cache_name, disk_cfg, disk_idx, remote, nchg, nreb, pc, op,
             px, py, pres, pmode>>

----------------------------------------------------------------------------
(* Bounds of the model *)

\* most files the remote item holds at a time
MaxFiles == 2
\* most changes the remote source undergoes in one behaviour
MaxRemoteChanges == 1
\* most rebuilds (creations and syncs that reach save_vectorstore) in one behaviour
MaxRebuilds == 1
\* longest descriptor list given to the pure functions
MaxLen == 3

Names == {"c1", "c2"}
Ids == {"A", "B"}
Etags == {"v1", "v2"}
NoSel == "-- select --"
NoCache == ""
TheLink == "https://sp/share"

None == <<>>
Some(x) == <<x>>

NoUrl == [head |-> "", tail |-> ""]
Url1 == [head |-> "https://dl", tail |-> "tok1"]

----------------------------------------------------------------------------
(* Remote items (Graph driveItem JSON) *)

FileItem(id, etag, url) ==
    [kind |-> "file", id |-> id, name |-> id, eTag |-> etag, url |-> url,
     children |-> <<>>]

FolderItem(id, ch) ==
    [kind |-> "folder", id |-> id, name |-> id, eTag |-> "", url |-> NoUrl,
     children |-> ch]

\* the item the sharing link resolves to: a folder holding remote.top and,
\* after them, the sub-folder "F" holding remote.sub
RootItem(r) == FolderItem("root", r.top \o <<FolderItem("F", r.sub)>>)

FolderIds == {"root", "F"}

\* item.get("eTag") or item.get("@microsoft.graph.downloadUrl", "")[:32]
EtagOf(item) == IF item.eTag # "" THEN item.eTag ELSE item.url.head

Descriptor(item) ==
    [id |-> item.id, name |-> item.name, etag |-> EtagOf(item),
     downloadUrl |-> item.url]

WalkFail == [ok |-> FALSE, files |-> <<>>]

RECURSIVE WalkItem(_, _)
RECURSIVE WalkChildren(_, _)

\* _walk: a file appends its descriptor, a folder requests its children
\* (raise_for_status raises when the request fails: down holds the folders
\* whose expansion fails) and walks them in order
WalkItem(item, down) ==
    IF item.kind = "file"
    THEN [ok |-> TRUE, files |-> <<Descriptor(item)>>]
    ELSE IF item.kind = "folder"
         THEN IF item.id \in down THEN WalkFail
              ELSE WalkChildren(item.children, down)
         ELSE [ok |-> TRUE, files |-> <<>>]

WalkChildren(ch, down) ==
    IF ch = <<>> THEN [ok |-> TRUE, files |-> <<>>]
    ELSE LET h == WalkItem(Head(ch), down)
         IN  IF ~h.ok THEN WalkFail
             ELSE LET t == WalkChildren(Tail(ch), down)
                  IN  IF ~t.ok THEN WalkFail
                      ELSE [ok |-> TRUE, files |-> h.files \o t.files]

\* variant: a failed folder request is swallowed and the traversal reports
\* no file instead of raising
collect_swallowing_errors(item_json, down) ==
    LET w == WalkItem(item_json, down)
    IN  IF w.ok THEN w ELSE [ok |-> TRUE, files |-> <<>>]

collect_files_recursively_from_item(item_json, down) == WalkItem(item_json, down)

----------------------------------------------------------------------------
(* Manifest builder and change detector *)

ReducedFile(f) == [id |-> f.id, name |-> f.name, etag |-> f.etag]

LastIndexOf(files, k) ==
    CHOOSE i \in 1..Len(files) :
        /\ files[i].id = k
        /\ \A j \in 1..Len(files) : files[j].id = k => j <= i

\* variant: the dict is keyed by the etag
ManifestMapByEtag(files) ==
    [k \in {files[i].etag : i \in 1..Len(files)} |->
        files[CHOOSE i \in 1..Len(files) :
                 /\ files[i].etag = k
                 /\ \A j \in 1..Len(files) : files[j].etag = k => j <= i].id]

\* {f.get("id"): f.get("etag") for f in files}: a later file with the same
\* id overwrites the earlier entry
ManifestMap(files) ==
    [k \in {files[i].id : i \in 1..Len(files)} |-> files[LastIndexOf(files, k)].etag]

\* variant: the count is taken from the map
build_manifest_counting_keys(files) ==
    [files |-> [i \in 1..Len(files) |-> ReducedFile(files[i])],
     map   |-> Some(ManifestMap(files)),
     count |-> Some(Cardinality(DOMAIN ManifestMap(files)))]

build_manifest(files) ==
    [files |-> [i \in 1..Len(files) |-> ReducedFile(files[i])],
     map   |-> Some(ManifestMap(files)),
     count |-> Some(Len(files))]

\* the empty dict {} stored as "manifest" of a file cache, and the default of
\* cfg.get("manifest", {}): .get("map") and .get("count") give None
EmptyDict == [files |-> <<>>, map |-> None, count |-> None]

\* variants: the comparison never succeeds; only the counts are compared;
\* the whole dicts are compared
manifests_never_equal(a, b) == FALSE
manifests_equal_by_count(a, b) == a.count = b.count
manifests_equal_whole(a, b) == a = b

manifests_equal(a, b) == (a.map = b.map) /\ (a.count = b.count)

----------------------------------------------------------------------------
(* Content fetcher *)

HasUrl(f) == f.downloadUrl # NoUrl

\* get_raw_text(fres.content, name) + "\n\n": one chunk per downloaded file
Chunk(f) == [name |-> f.name, ver |-> f.etag]

\* variant: a file without download URL is fetched like the others
download_every_file(files) == [i \in 1..Len(files) |-> Chunk(files[i])]

RECURSIVE download_and_extract_text(_)
download_and_extract_text(files) ==
    IF files = <<>> THEN <<>>
    ELSE IF ~HasUrl(Head(files)) THEN download_and_extract_text(Tail(files))
         ELSE <<Chunk(Head(files))>> \o download_and_extract_text(Tail(files))

Downloads(files) == {i \in 1..Len(files) : HasUrl(files[i])}

\* download_and_extract_text when the requests for the files at the positions
\* bad fail: fres.raise_for_status() raises and all_text is not returned
DownloadOutcome(files, bad) ==
    IF Downloads(files) \cap bad # {}
    THEN [ok |-> FALSE, text |-> <<>>]
    ELSE [ok |-> TRUE, text |-> download_and_extract_text(files)]

----------------------------------------------------------------------------
(* Cache store *)

EmptyCfg == [type |-> "", link |-> "", autosync |-> FALSE, manifest |-> EmptyDict]

AbsentFile == [st |-> "absent", cfg |-> EmptyCfg]
PartialFile == [st |-> "partial", cfg |-> EmptyCfg]
OkFile(cfg) == [st |-> "ok", cfg |-> cfg]

\* json.load of config.json; any exception (no file, truncated file) gives {}
read_cache_config(name) ==
    IF name \in Names /\ disk_cfg[name].st = "ok" THEN disk_cfg[name].cfg
    ELSE EmptyCfg

\* the directories under PERSIST_DIR
list_caches == {n \in Names : disk_cfg[n].st # "absent" \/ disk_idx[n] # None}

FileCfg == [type |-> "file", link |-> "", autosync |-> FALSE, manifest |-> EmptyDict]

SharepointCfg(link, autosync, manifest) ==
    [type |-> "sharepoint", link |-> link, autosync |-> autosync,
     manifest |-> manifest]

\* variant: the new manifest is not put into the config
CfgKeepingManifest(cfg, m) == cfg

\* cfg["manifest"] = new_manifest
CfgWithManifest(cfg, m) == [cfg EXCEPT !.manifest = m]

\* variant: the config is made anew and the manifest is lost
CfgAnewWithAutosync(cfg, v) == [cfg EXCEPT !.autosync = v, !.manifest = EmptyDict]

\* cfg["autosync"] = new_val
CfgWithAutosync(cfg, v) == [cfg EXCEPT !.autosync = v]

----------------------------------------------------------------------------
(* The operation in progress *)

Snapshot == [qa |-> qa, cur |-> current_cache_name, cfg |-> disk_cfg,
             idx |-> disk_idx]

NoSnapshot == [qa |-> None, cur |-> NoCache,
               cfg |-> [n \in Names |-> AbsentFile],
               idx |-> [n \in Names |-> None]]

NoOp == [kind |-> "none", cache |-> NoCache, pre |-> NoSnapshot,
         old |-> EmptyCfg, cfg |-> EmptyCfg, files |-> <<>>, text |-> <<>>,
         log |-> <<>>, fail |-> "none", outcome |-> "none", raced |-> None]

NewOp(kind, cache) == [NoOp EXCEPT !.kind = kind, !.cache = cache, !.pre = Snapshot]


----------------------------------------------------------------------------
(* Knowledge base builder: build, persist, load *)

\* build_qa_engine(raw_text=...): the index built from the text
BuildQaEngine(text) == Some(text)

\* load_vectorstore: the artifact persisted under the name, None when absent
LoadVectorstore(name) == disk_idx[name]

\* save_vectorstore(vectorstore, PERSIST_DIR, cache_name): the artifact on disk
SaveVectorstore(idx, name, text) == [idx EXCEPT ![name] = Some(text)]

\* variant: the name is assigned before the artifact is loaded
load_naming_first(name, ld) ==
    IF ld # "raise" /\ LoadVectorstore(name) # None
    THEN [ok |-> TRUE, qa |-> LoadVectorstore(name), cur |-> name]
    ELSE [ok |-> FALSE, qa |-> qa, cur |-> name]

\* load_cache_into_memory(name); ld = "raise" when load_vectorstore or
\* build_qa_engine raises
load_cache_into_memory(name, ld) ==
    IF ld # "raise" /\ LoadVectorstore(name) # None
    THEN [ok |-> TRUE, qa |-> LoadVectorstore(name), cur |-> name]
    ELSE [ok |-> FALSE, qa |-> qa, cur |-> current_cache_name]

\* variant: only the index is assigned
SessionKeepingName(o) == [qa |-> BuildQaEngine(o.text), cur |-> current_cache_name]

\* rebuild_vectorstore_and_save, after save_vectorstore returned:
\* st.session_state.qa = qa; st.session_state.current_cache_name = cache_name
SessionAfterRebuild(o) == [qa |-> BuildQaEngine(o.text), cur |-> o.cache]

----------------------------------------------------------------------------
(* Remote calls of one attempt: token, share link resolution, traversal *)

Fails == {"none", "token", "resolve", "download", "build"}

\* one attempt meets at most one failure: a failing request (fail) or failing
\* folder expansions (down)
OneFailure(fail, down) == fail = "none" \/ down = {}

\* the failure the attempt meets
Met(fail, down) == IF down # {} THEN "walk" ELSE fail

\* get_graph_token, share_link_to_drive_item_meta,
\* collect_files_recursively_from_item; any failure raises
RemoteFetch(fail, down) ==
    IF fail = "token" THEN [ok |-> FALSE, log |-> <<"token">>, files |-> <<>>]
    ELSE IF fail = "resolve"
         THEN [ok |-> FALSE, log |-> <<"token", "resolve">>, files |-> <<>>]
         ELSE LET w == collect_files_recursively_from_item(RootItem(remote), down)
              IN  [ok |-> w.ok, log |-> <<"token", "resolve", "list">>,
                   files |-> w.files]

\* download_and_extract_text then build_qa_engine of rebuild_vectorstore_and_save
FetchAndBuild(files, fail) ==
    IF fail = "download" /\ Downloads(files) # {}
    THEN [ok |-> FALSE, log |-> <<"download">>, text |-> <<>>]
    ELSE IF fail = "build"
         THEN [ok |-> FALSE, log |-> <<"download", "build">>, text |-> <<>>]
         ELSE [ok |-> TRUE, log |-> <<"download", "build">>,
               text |-> download_and_extract_text(files)]

----------------------------------------------------------------------------
(* Sync orchestrator *)

\* variant: the auto-sync flag is not consulted
GateIgnoringAutosync(cache, cfg) ==
    /\ cache # NoCache
    /\ cfg.type = "sharepoint"
    /\ cfg.link # ""

\* the early returns of maybe_autosync_current_cache
AutosyncGate(cache, cfg) ==
    /\ cache # NoCache
    /\ cfg.type = "sharepoint"
    /\ cfg.autosync
    /\ cfg.link # ""

\* variant: the config is written without the index being persisted first
ConfigFirst == "cfg_open"

\* rebuild_vectorstore_and_save comes before write_cache_config: once the
\* index is built, the next step is save_vectorstore
RebuildEntry == "save"

\* variant: every operation goes on to the query handling of the chat page
AfterAlwaysChat(o) == "chat"

\* where a finished or failed operation resumes
After(o) == IF o.kind = "sync" THEN "chat" ELSE "end"

Finish(o, outcome) ==
    /\ op' = [o EXCEPT !.outcome = outcome]
    /\ pc' = After(o)

\* maybe_autosync_current_cache up to the call of save_vectorstore, run with
\* the session s that render_header left
maybe_autosync_current_cache(s, fail, down) ==
    LET cache == s.cur
        cfg == read_cache_config(cache)
        o == [NoOp EXCEPT !.kind = "sync", !.cache = cache, !.old = cfg,
                          !.pre = [Snapshot EXCEPT !.qa = s.qa, !.cur = s.cur]]
    IN  IF ~AutosyncGate(cache, cfg)
        THEN /\ fail = "none" /\ down = {}
             /\ Finish(o, "skipped")
        ELSE LET r == RemoteFetch(fail, down)
                 o1 == [o EXCEPT !.log = r.log, !.files = r.files,
                                 !.fail = Met(fail, down)]
             IN  IF ~r.ok THEN Finish(o1, "failed")
                 ELSE LET new_manifest == build_manifest(r.files)
                          old_manifest == cfg.manifest
                          o2 == [o1 EXCEPT !.log = @ \o <<"compare">>]
                      IN  IF manifests_equal(new_manifest, old_manifest)
                          THEN /\ fail = "none"
                               /\ Finish(o2, "unchanged")
                          ELSE LET b == FetchAndBuild(r.files, fail)
                                   o3 == [o2 EXCEPT !.log = @ \o b.log,
                                                    !.text = b.text,
                                                    !.cfg = CfgWithManifest(cfg, new_manifest)]
                               IN  /\ fail = "download" => Downloads(r.files) # {}
                                   /\ IF ~b.ok THEN Finish(o3, "failed")
                                      ELSE /\ op' = o3
                                           /\ pc' = RebuildEntry

\* variant: the session is assigned before save_vectorstore is called, so a
\* failing save leaves the new index in memory over the old artifact
SaveStepSessionFirst(fails) ==
    /\ pc = "save"
    /\ qa' = SessionAfterRebuild(op).qa
    /\ current_cache_name' = SessionAfterRebuild(op).cur
    /\ IF fails
       THEN /\ Finish(op, "failed")
            /\ UNCHANGED disk_idx
       ELSE /\ disk_idx' = SaveVectorstore(disk_idx, op.cache, op.text)
            /\ op' = [op EXCEPT !.log = @ \o <<"save">>]
            /\ pc' = "cfg_open"
    /\ UNCHANGED <<disk_cfg, env, pure>>

\* save_vectorstore and the two assignments that end rebuild_vectorstore_and_save
SaveStep(fails) ==
    /\ pc = "save"
    /\ IF fails
       THEN /\ Finish(op, "failed")
            /\ UNCHANGED <<qa, current_cache_name, disk_idx>>
       ELSE /\ disk_idx' = SaveVectorstore(disk_idx, op.cache, op.text)
            /\ qa' = SessionAfterRebuild(op).qa
            /\ current_cache_name' = SessionAfterRebuild(op).cur
            /\ op' = [op EXCEPT !.log = @ \o <<"save">>]
            /\ pc' = "cfg_open"
    /\ UNCHANGED <<disk_cfg, env, pure>>

\* variant: only the manifest is put into the config found on disk
MergeIntoStored(stored, config) ==
    IF stored.type = config.type /\ stored.manifest # config.manifest
    THEN [stored EXCEPT !.manifest = config.manifest]
    ELSE config

\* write_cache_config(cache_name, config): what json.dump puts into the file
\* is the dict it is given, whatever the file held
Overwrite(stored, config) == config

\* write_cache_config: makedirs and open(config_path, "w"), which truncates
OpenCfgStep(fails) ==
    /\ pc = "cfg_open"
    /\ IF fails
       THEN /\ Finish(op, "failed")
            /\ UNCHANGED disk_cfg
       ELSE /\ disk_cfg' = [disk_cfg EXCEPT ![op.cache] = PartialFile]
            /\ op' = [op EXCEPT !.log = @ \o <<"open">>,
                                !.cfg = Overwrite(disk_cfg[op.cache].cfg, @)]
            /\ pc' = "cfg_dump"
    /\ UNCHANGED <<session, disk_idx, env, pure>>

\* write_cache_config: json.dump(config, f) and the close of the file
DumpCfgStep(fails) ==
    /\ pc = "cfg_dump"
    /\ IF fails
       THEN /\ Finish(op, "failed")
            /\ UNCHANGED disk_cfg
       ELSE /\ disk_cfg' = [disk_cfg EXCEPT ![op.cache] = OkFile(op.cfg)]
            /\ Finish([op EXCEPT !.log = @ \o <<"write">>], "done")
    /\ UNCHANGED <<session, disk_idx, env, pure>>

\* the process dies between two steps of a rebuild and is started again: the
\* session is the default one, the files stay as they are
Crash ==
    /\ pc \in {"save", "cfg_open", "cfg_dump"}
    /\ pc' = "end"
    /\ op' = [op EXCEPT !.outcome = "crashed"]
    /\ qa' = None
    /\ current_cache_name' = NoCache
    /\ UNCHANGED <<disk, env, pure>>

----------------------------------------------------------------------------
(* Pages *)

Selections == {NoSel} \cup list_caches

\* render_header: the cache selector
HeaderSelect(selected, ld) ==
    IF selected # NoSel /\ selected # current_cache_name
    THEN load_cache_into_memory(selected, ld)
    ELSE [ok |-> FALSE, qa |-> qa, cur |-> current_cache_name]

\* page_chat: render_header, then maybe_autosync_current_cache
PageChat(selected, ld, fail, down) ==
    /\ pc = "idle"
    /\ selected \in Selections
    /\ ld = "raise" => (selected # NoSel /\ selected # current_cache_name)
    /\ OneFailure(fail, down)
    /\ LET h == HeaderSelect(selected, ld)
       IN  /\ qa' = h.qa
           /\ current_cache_name' = h.cur
           /\ maybe_autosync_current_cache(h, fail, down)
    /\ nreb' = IF pc' \in {"save", "cfg_open"} THEN nreb + 1 ELSE nreb
    /\ nreb' <= MaxRebuilds
    /\ UNCHANGED <<disk, remote, nchg, pure>>

\* page_chat after maybe_autosync_current_cache returned
ChatBody ==
    /\ pc = "chat"
    /\ pc' = "idle"
    /\ op' = NoOp
    /\ UNCHANGED <<session, disk, env, pure>>

UploadTexts == {<<>>, <<[name |-> "upload", ver |-> "f1"]>>}

\* raw_text.strip() is empty
Blank(text) == text = <<>>

\* Process & Save to Memory (File) up to the call of save_vectorstore
CreateFromFile(cache_name, raw_text, fail) ==
    /\ pc = "idle"
    /\ cache_name \in Names
    /\ raw_text \in UploadTexts
    /\ fail \in {"none", "build"}
    /\ LET o == [NewOp("file", cache_name) EXCEPT !.text = raw_text, !.cfg = FileCfg]
       IN  IF Blank(raw_text)
           THEN /\ fail = "none"
                /\ Finish(o, "rejected")
           ELSE IF fail = "build"
                THEN Finish(o, "failed")
                ELSE /\ op' = [o EXCEPT !.log = <<"build">>]
                     /\ pc' = RebuildEntry
    /\ nreb' = IF pc' \in {"save", "cfg_open"} THEN nreb + 1 ELSE nreb
    /\ nreb' <= MaxRebuilds
    /\ UNCHANGED <<session, disk, remote, nchg, pure>>

\* Load and Save (SharePoint) up to the call of save_vectorstore
CreateFromSharePoint(cache_name_sp, autosync, fail, down) ==
    /\ pc = "idle"
    /\ cache_name_sp \in Names
    /\ OneFailure(fail, down)
    /\ LET o == NewOp("sharepoint", cache_name_sp)
           r == RemoteFetch(fail, down)
           o1 == [o EXCEPT !.log = r.log, !.files = r.files]
       IN  IF ~r.ok THEN Finish(o, "failed")
           ELSE LET b == FetchAndBuild(r.files, fail)
                    manifest == build_manifest(r.files)
                    o2 == [o1 EXCEPT !.log = @ \o b.log, !.text = b.text,
                                     !.cfg = SharepointCfg(TheLink, autosync, manifest)]
                IN  /\ fail = "download" => Downloads(r.files) # {}
                    /\ IF ~b.ok THEN Finish(o, "failed")
                       ELSE /\ op' = o2
                            /\ pc' = RebuildEntry
    /\ nreb' = IF pc' \in {"save", "cfg_open"} THEN nreb + 1 ELSE nreb
    /\ nreb' <= MaxRebuilds
    /\ UNCHANGED <<session, disk, remote, nchg, pure>>

\* Load selected cache into memory
LoadSelected(selected_cache, ld) ==
    /\ pc = "idle"
    /\ selected_cache \in list_caches
    /\ LET h == load_cache_into_memory(selected_cache, ld)
       IN  /\ qa' = h.qa
           /\ current_cache_name' = h.cur
           /\ op' = [NewOp("load", selected_cache) EXCEPT
                        !.outcome = IF h.ok THEN "done" ELSE "failed"]
    /\ pc' = "end"
    /\ UNCHANGED <<disk, env, pure>>

\* Clear in-memory selection
ClearSelection ==
    /\ pc = "idle"
    /\ qa' = None
    /\ current_cache_name' = NoCache
    /\ op' = [NewOp("clear", NoCache) EXCEPT !.outcome = "done"]
    /\ pc' = "end"
    /\ UNCHANGED <<disk, env, pure>>

\* Save auto-sync setting: read_cache_config, cfg["autosync"] = new_val,
\* write_cache_config
SaveAutosync(autosync_cache, new_val) ==
    /\ pc = "idle"
    /\ autosync_cache \in list_caches
    /\ LET cfg == read_cache_config(autosync_cache)
       IN  /\ cfg.type = "sharepoint"
           /\ op' = [NewOp("toggle", autosync_cache) EXCEPT
                        !.old = cfg, !.cfg = CfgWithAutosync(cfg, new_val)]
    /\ pc' = "cfg_open"
    /\ UNCHANGED <<session, disk, env, pure>>

\* the settings run is over
EndRun ==
    /\ pc = "end"
    /\ pc' = "idle"
    /\ op' = NoOp
    /\ UNCHANGED <<session, disk, env, pure>>

----------------------------------------------------------------------------
(* The remote source changes between runs *)

NFiles(r) == Len(r.top) + Len(r.sub)

RemoteSetEtag(where, i, e) ==
    /\ pc = "idle"
    /\ nchg < MaxRemoteChanges
    /\ where \in {"top", "sub"}
    /\ i \in 1..Len(remote[where])
    /\ e \in Etags
    /\ e # remote[where][i].eTag
    /\ remote' = [remote EXCEPT ![where][i].eTag = e]
    /\ nchg' = nchg + 1
    /\ UNCHANGED <<session, disk, nreb, pc, op, pure>>

\* a file appears in the sub-folder
RemoteAddFile(id, e) ==
    /\ pc = "idle"
    /\ nchg < MaxRemoteChanges
    /\ NFiles(remote) < MaxFiles
    /\ remote' = [remote EXCEPT !.sub = Append(@, FileItem(id, e, Url1))]
    /\ nchg' = nchg + 1
    /\ UNCHANGED <<session, disk, nreb, pc, op, pure>>

RemoteRemoveFile(where, i) ==
    /\ pc = "idle"
    /\ nchg < MaxRemoteChanges
    /\ where \in {"top", "sub"}
    /\ i \in 1..Len(remote[where])
    /\ remote' = [remote EXCEPT ![where] =
                     [j \in 1..(Len(@) - 1) |-> IF j < i THEN @[j] ELSE @[j + 1]]]
    /\ nchg' = nchg + 1
    /\ UNCHANGED <<session, disk, nreb, pc, op, pure>>

----------------------------------------------------------------------------
(* Specification of the application *)

PureIdle == px = <<>> /\ py = <<>> /\ pres = FALSE /\ pmode = "off"

\* the remote item when the process starts: the two files of the end-to-end
\* scenario, two files under one id, or no file
InitialRemotes ==
    {[top |-> <<FileItem("A", "v1", Url1)>>, sub |-> <<FileItem("B", "v1", Url1)>>],
     [top |-> <<FileItem("A", "v1", Url1)>>, sub |-> <<FileItem("A", "v1", Url1)>>],
     [top |-> <<>>, sub |-> <<>>]}

ListingOf(r) == collect_files_recursively_from_item(RootItem(r), {}).files

\* what a completed Load and Save (SharePoint) with auto-sync on leaves on disk
CreatedCfg(r) == OkFile(SharepointCfg(TheLink, TRUE, build_manifest(ListingOf(r))))
CreatedIdx(r) == BuildQaEngine(download_and_extract_text(ListingOf(r)))

\* The persistence directory outlives the process: a run starts with an empty
\* directory, or with the cache "c1" that Load and Save (SharePoint) of an
\* earlier run created from the remote item.
Init ==
    /\ qa = None
    /\ current_cache_name = NoCache
    /\ remote \in InitialRemotes
    /\ \/ /\ disk_cfg = [n \in Names |-> AbsentFile]
          /\ disk_idx = [n \in Names |-> None]
       \/ /\ disk_cfg = [n \in Names |-> IF n = "c1" THEN CreatedCfg(remote) ELSE AbsentFile]
          /\ disk_idx = [n \in Names |-> IF n = "c1" THEN CreatedIdx(remote) ELSE None]
    /\ nchg = 0
    /\ nreb = 0
    /\ pc = "idle"
    /\ op = NoOp
    /\ PureIdle

Next ==
    \/ \E s \in Names \cup {NoSel}, ld \in {"ok", "raise"}, f \in Fails,
          d \in SUBSET FolderIds : PageChat(s, ld, f, d)
    \/ \E b \in BOOLEAN : SaveStep(b)
    \/ \E b \in BOOLEAN : OpenCfgStep(b)
    \/ \E b \in BOOLEAN : DumpCfgStep(b)
    \/ Crash
    \/ ChatBody
    \/ \E n \in Names, t \in UploadTexts, f \in Fails : CreateFromFile(n, t, f)
    \/ \E n \in Names, a \in BOOLEAN, f \in Fails, d \in SUBSET FolderIds :
          CreateFromSharePoint(n, a, f, d)
    \/ \E n \in Names, ld \in {"ok", "raise"} : LoadSelected(n, ld)
    \/ ClearSelection
    \/ \E n \in Names, v \in BOOLEAN : SaveAutosync(n, v)
    \/ EndRun
    \/ \E w \in {"top", "sub"}, i \in 1..MaxFiles, e \in Etags : RemoteSetEtag(w, i, e)
    \/ \E id \in Ids : RemoteAddFile(id, "v1")
    \/ \E w \in {"top", "sub"}, i \in 1..MaxFiles : RemoteRemoveFile(w, i)

Spec == Init /\ [][Next]_vars

----------------------------------------------------------------------------
(* Specification of two operators on one cache: while this session's sync  *)
(* is between its read of the config and its write, another session saves  *)
(* the auto-sync setting of the same cache                                  *)

\* Save auto-sync setting run by another session, from read_cache_config to
\* the end of write_cache_config
OtherOperatorSavesAutosync(n, v) ==
    /\ pc \in {"save", "cfg_open"}
    /\ op.kind = "sync"
    /\ op.raced = None
    /\ n = op.cache
    /\ LET cfg == read_cache_config(n)
       IN  /\ cfg.type = "sharepoint"
           /\ disk_cfg' = [disk_cfg EXCEPT ![n] = OkFile(CfgWithAutosync(cfg, v))]
           /\ op' = [op EXCEPT !.raced = Some(CfgWithAutosync(cfg, v))]
    /\ UNCHANGED <<session, disk_idx, env, pc, pure>>

\* the cache "c1" exists, created from the remote item with auto-sync on
InitRace ==
    /\ Init
    /\ disk_cfg["c1"].st = "ok"

NextRace ==
    \/ \E s \in Names \cup {NoSel}, ld \in {"ok", "raise"}, f \in Fails,
          d \in SUBSET FolderIds : PageChat(s, ld, f, d)
    \/ \E b \in BOOLEAN : SaveStep(b)
    \/ \E b \in BOOLEAN : OpenCfgStep(b)
    \/ \E b \in BOOLEAN : DumpCfgStep(b)
    \/ ChatBody
    \/ \E n \in Names, v \in BOOLEAN : SaveAutosync(n, v)
    \/ EndRun
    \/ \E n \in Names, v \in BOOLEAN : OtherOperatorSavesAutosync(n, v)
    \/ \E w \in {"top", "sub"}, i \in 1..MaxFiles, e \in Etags : RemoteSetEtag(w, i, e)
    \/ \E id \in Ids : RemoteAddFile(id, "v1")
    \/ \E w \in {"top", "sub"}, i \in 1..MaxFiles : RemoteRemoveFile(w, i)

SpecRace == InitRace /\ [][NextRace]_vars

----------------------------------------------------------------------------
(* Specification of the pure functions: build_manifest and manifests_equal  *)
(* applied to a descriptor list px and a list py derived from it            *)

PureFiles ==
    {[id |-> i, name |-> i, etag |-> e, downloadUrl |-> u] :
        i \in Ids, e \in Etags, u \in {NoUrl, Url1}}

FileLists == UNION {[1..n -> PureFiles] : n \in 0..MaxLen}

Injections(n) == {q \in [1..n -> 1..n] : \A i, j \in 1..n : q[i] = q[j] => i = j}

\* manifests_equal(build_manifest(x), build_manifest(y))
CompareLists(x, y) == manifests_equal(build_manifest(x), build_manifest(y))

\* one file gets another etag
ChangeEtag(i, e) ==
    /\ pmode = "input"
    /\ i \in 1..Len(px)
    /\ e \in Etags
    /\ e # px[i].etag
    /\ py' = [px EXCEPT ![i].etag = e]
    /\ pres' = CompareLists(px, py')
    /\ pmode' = "etag"
    /\ UNCHANGED <<px, session, disk, env, pc, op>>

\* the same files are listed in another order
Permute(q) ==
    /\ pmode = "input"
    /\ q \in Injections(Len(px))
    /\ py' = [i \in 1..Len(px) |-> px[q[i]]]
    /\ pres' = CompareLists(px, py')
    /\ pmode' = "perm"
    /\ UNCHANGED <<px, session, disk, env, pc, op>>

\* one file is put into the list, after the first i files
AddFile(i, f) ==
    /\ pmode = "input"
    /\ i \in 0..Len(px)
    /\ f \in PureFiles
    /\ py' = SubSeq(px, 1, i) \o <<f>> \o SubSeq(px, i + 1, Len(px))
    /\ pres' = CompareLists(px, py')
    /\ pmode' = "add"
    /\ UNCHANGED <<px, session, disk, env, pc, op>>

\* one file is taken out of the list
RemoveFile(i) ==
    /\ pmode = "input"
    /\ i \in 1..Len(px)
    /\ py' = SubSeq(px, 1, i - 1) \o SubSeq(px, i + 1, Len(px))
    /\ pres' = CompareLists(px, py')
    /\ pmode' = "remove"
    /\ UNCHANGED <<px, session, disk, env, pc, op>>

\* the manifest of the list is compared with itself
SelfCompare ==
    /\ pmode = "input"
    /\ py' = px
    /\ pres' = manifests_equal(build_manifest(px), build_manifest(px))
    /\ pmode' = "self"
    /\ UNCHANGED <<px, session, disk, env, pc, op>>

\* download_and_extract_text(px) with the requests at the positions bad
\* failing (only a file with URL is requested): py is the text returned,
\* pres tells whether the call returned
Download(bad) ==
    /\ pmode = "input"
    /\ bad \subseteq Downloads(px)
    /\ py' = DownloadOutcome(px, bad).text
    /\ pres' = DownloadOutcome(px, bad).ok
    /\ pmode' = IF bad = {} THEN "download" ELSE "download_bad"
    /\ UNCHANGED <<px, session, disk, env, pc, op>>

InitPure ==
    /\ qa = None
    /\ current_cache_name = NoCache
    /\ remote = [top |-> <<>>, sub |-> <<>>]
    /\ disk_cfg = [n \in Names |-> AbsentFile]
    /\ disk_idx = [n \in Names |-> None]
    /\ nchg = 0
    /\ nreb = 0
    /\ pc = "idle"
    /\ op = NoOp
    /\ px \in FileLists
    /\ py = <<>>
    /\ pres = FALSE
    /\ pmode = "input"

NextPure ==
    \/ \E i \in 1..MaxLen, e \in Etags : ChangeEtag(i, e)
    \/ \E q \in UNION {Injections(n) : n \in 0..MaxLen} : Permute(q)
    \/ \E i \in 0..MaxLen, f \in PureFiles : AddFile(i, f)
    \/ \E i \in 1..MaxLen : RemoveFile(i)
    \/ SelfCompare
    \/ \E bad \in SUBSET (1..MaxLen) : Download(bad)

SpecPure == InitPure /\ [][NextPure]_vars

----------------------------------------------------------------------------
(* Vocabulary of the properties *)

Count(log, e) == Cardinality({i \in 1..Len(log) : log[i] = e})

Logged(e) == Count(op.log, e) > 0

\* every a of the log comes before every b of the log
Precedes(log, a, b) ==
    \A i, j \in 1..Len(log) : (log[i] = a /\ log[j] = b) => i < j

\* maybe_autosync_current_cache has returned to page_chat
SyncReturned == pc = "chat" /\ op.kind = "sync"

\* the config file of the current cache when the sync was entered
EnteredCfgFile == op.pre.cfg[op.pre.cur]

\* the sync was entered with a current cache whose readable config is of
\* type sharepoint, has auto-sync on and a non-empty link
Eligible ==
    /\ op.pre.cur # NoCache
    /\ EnteredCfgFile.st = "ok"
    /\ EnteredCfgFile.cfg.type = "sharepoint"
    /\ EnteredCfgFile.cfg.autosync
    /\ EnteredCfgFile.cfg.link # ""

\* two manifests agree on the id -> etag map and on the file count
SameManifest(m1, m2) == m1.map = m2.map /\ m1.count = m2.count

\* session, configs and index artifacts are what they were when the
\* operation was entered
NothingChanged ==
    /\ qa = op.pre.qa
    /\ current_cache_name = op.pre.cur
    /\ disk_cfg = op.pre.cfg
    /\ disk_idx = op.pre.idx

RemoteFailures == {"token", "resolve", "walk", "download"}

\* the listing without the download URLs, as a manifest keeps it
Reduced(files) == [i \in 1..Len(files) |-> ReducedFile(files[i])]

HasDuplicateIds(files) ==
    \E i, j \in 1..Len(files) : i # j /\ files[i].id = files[j].id

\* l2 is l1 with the etag of exactly one file replaced
OneEtagChanged(l1, l2) ==
    /\ Len(l1) = Len(l2)
    /\ \A i \in 1..Len(l1) : l1[i].id = l2[i].id /\ l1[i].name = l2[i].name
    /\ Cardinality({i \in 1..Len(l1) : l1[i].etag # l2[i].etag}) = 1

\* files of the list that share an id share the etag
OneEtagPerId(files) ==
    \A i, j \in 1..Len(files) : files[i].id = files[j].id => files[i].etag = files[j].etag

----------------------------------------------------------------------------
(* C1 *)

\* C1: a sync that fetched a listing whose manifest differs from the stored
\* one and that ran to its end built the index exactly once, persisted it
\* before the config was written, and left as stored manifest the manifest
\* of the listing fetched in that sync
C1_ChangedSyncRebuildsOnceThenStores ==
    /\ op.kind = "sync" =>
          /\ Count(op.log, "build") <= 1
          /\ Precedes(op.log, "save", "open")
          /\ Precedes(op.log, "save", "write")
          /\ (Logged("open") \/ Logged("write")) => Logged("save")
    /\ (/\ SyncReturned
        /\ Logged("compare")
        /\ ~SameManifest(build_manifest(op.files), EnteredCfgFile.cfg.manifest)
        /\ op.outcome = "done")
       => /\ Count(op.log, "build") = 1
          /\ Count(op.log, "save") = 1
          /\ Count(op.log, "write") = 1
          /\ disk_cfg[op.cache].st = "ok"
          /\ disk_cfg[op.cache].cfg.manifest = build_manifest(op.files)

C1_Witness ==
    /\ SyncReturned
    /\ op.outcome = "done"
    /\ ~SameManifest(build_manifest(op.files), EnteredCfgFile.cfg.manifest)
    /\ disk_cfg[op.cache].cfg.manifest = build_manifest(op.files)

----------------------------------------------------------------------------
(* C2 *)

\* C2: a sync whose fetched listing gives a manifest with the same map and
\* the same count as the stored manifest calls neither the download, nor
\* the build, nor the persist step, and leaves config, artifact and
\* in-memory index as they were
C2_EqualManifestChangesNothing ==
    (/\ op.kind = "sync"
     /\ Logged("compare")
     /\ SameManifest(build_manifest(op.files), EnteredCfgFile.cfg.manifest))
    => /\ SyncReturned
       /\ op.log = <<"token", "resolve", "list", "compare">>
       /\ NothingChanged

C2_Witness ==
    /\ SyncReturned
    /\ Logged("compare")
    /\ op.files # <<>>
    /\ SameManifest(build_manifest(op.files), EnteredCfgFile.cfg.manifest)
    /\ NothingChanged

----------------------------------------------------------------------------
(* C3 *)

\* a sync that found a changed listing has reached the build of the new index
Rebuilding == op.kind = "sync" /\ Logged("build")

OldConfigOnDisk == disk_cfg[op.cache] = op.pre.cfg[op.cache]
OldIndexOnDisk == disk_idx[op.cache] = op.pre.idx[op.cache]
NewConfigOnDisk == disk_cfg[op.cache] = OkFile(op.cfg)
NewIndexOnDisk == disk_idx[op.cache] = Some(op.text)
ConfigUnreadable == disk_cfg[op.cache].st = "partial"

----------------------------------------------------------------------------
(* C4 *)

\* C4: when getting the token, resolving the link, listing a folder or
\* downloading a file fails during a sync, the sync returns without
\* building, persisting or writing, a listing cut short by the failure is
\* never compared, and config, artifact and session are what they were
C4_RemoteFailureChangesNothing ==
    (op.kind = "sync" /\ op.fail \in RemoteFailures) =>
        /\ SyncReturned
        /\ op.outcome = "failed"
        /\ ~Logged("build") /\ ~Logged("save") /\ ~Logged("open") /\ ~Logged("write")
        /\ op.fail # "download" => ~Logged("compare")
        /\ NothingChanged

\* a folder request failed during the traversal of a non-empty source
C4_Witness ==
    /\ SyncReturned
    /\ op.fail = "walk"
    /\ op.outcome = "failed"
    /\ EnteredCfgFile.cfg.manifest.count # Some(0)
    /\ NothingChanged

----------------------------------------------------------------------------
(* C5 *)

\* C5 as stated: a sync in which any step raised leaves the in-memory index
\* and the current cache name as they were when the sync was entered
C5_FailedSyncKeepsSession ==
    (SyncReturned /\ op.outcome = "failed") =>
        /\ qa = op.pre.qa
        /\ current_cache_name = op.pre.cur

----------------------------------------------------------------------------
(* C6 *)

\* C6: a sync entered without a current cache, or with a config that is not
\* of type sharepoint, has auto-sync off or has no link, issues no remote
\* call and changes nothing
C6_IneligibleSyncDoesNothing ==
    (op.kind = "sync" /\ ~Eligible) =>
        /\ SyncReturned
        /\ op.log = <<>>
        /\ NothingChanged

\* a sharepoint cache with auto-sync off is current
C6_Witness ==
    /\ SyncReturned
    /\ op.pre.cur # NoCache
    /\ EnteredCfgFile.st = "ok"
    /\ EnteredCfgFile.cfg.type = "sharepoint"
    /\ ~EnteredCfgFile.cfg.autosync
    /\ op.log = <<>>

----------------------------------------------------------------------------
(* C7 *)

\* the listing the stored manifest was built from, when the sync was entered
StoredListing == EnteredCfgFile.cfg.manifest.files

\* a sync of an eligible cache whose remote calls all succeeded and whose
\* writes, if any, all succeeded
CleanSync ==
    /\ SyncReturned
    /\ Eligible
    /\ op.outcome \in {"done", "unchanged"}

\* the map holds, for every id of the listing, the etag the listing gives it
IsIdEtagMapOf(m, files) ==
    /\ DOMAIN m = {files[i].id : i \in 1..Len(files)}
    /\ \A k \in DOMAIN m : \E i \in 1..Len(files) :
          /\ files[i].id = k
          /\ files[i].etag = m[k]
          /\ \A j \in (i + 1)..Len(files) : files[j].id # k

\* the sync rebuilt once and stored the manifest of the fetched listing
RebuiltAndStored ==
    /\ op.outcome = "done"
    /\ Count(op.log, "build") = 1
    /\ disk_cfg[op.cache].st = "ok"
    /\ disk_cfg[op.cache].cfg.manifest.files = Reduced(op.files)
    /\ disk_cfg[op.cache].cfg.manifest.count = Some(Len(op.files))
    /\ Len(disk_cfg[op.cache].cfg.manifest.map) = 1
    /\ IsIdEtagMapOf(disk_cfg[op.cache].cfg.manifest.map[1], op.files)

\* the sync neither rebuilt nor wrote
NoRebuild == op.outcome = "unchanged" /\ ~Logged("build") /\ NothingChanged

\* C7 as stated: for a cache whose stored manifest was built from listing L,
\* a sync that fetches L again does not rebuild, and a sync that fetches L
\* with one etag changed rebuilds once and stores the manifest of that
\* listing
C7_AnyEtagChangeRebuilds ==
    CleanSync =>
        /\ Reduced(op.files) = StoredListing => NoRebuild
        /\ OneEtagChanged(StoredListing, Reduced(op.files)) => RebuiltAndStored

----------------------------------------------------------------------------
(* C8 *)

\* C8 as stated: a sync whose listing holds two files with the same id is
\* treated as changed and rebuilds
C8_DuplicateIdsForceRebuild ==
    (/\ SyncReturned
     /\ Eligible
     /\ op.fail = "none"
     /\ Logged("list")
     /\ HasDuplicateIds(op.files))
    => Logged("build")

----------------------------------------------------------------------------
(* C9 *)

\* C9 as stated: a list and the list got from it by replacing the etag of
\* one file by a different value give manifests that compare unequal
C9_EtagChangeComparesUnequal ==
    pmode = "etag" => ~pres

----------------------------------------------------------------------------
(* C10 *)

\* C10 as stated: a list and any reordering of it give manifests that
\* compare equal
C10_PermutationComparesEqual ==
    pmode = "perm" => pres

\* C10: a list in which files that share an id share the etag (so every list
\* with pairwise distinct ids) and any reordering of it give manifests that
\* compare equal
C10_PermutationOfOneEtagPerIdComparesEqual ==
    (pmode = "perm" /\ OneEtagPerId(px)) => pres

\* three files, two ids, listed in another order
C10_Witness ==
    /\ pmode = "perm"
    /\ OneEtagPerId(px)
    /\ Len(px) = 3
    /\ HasDuplicateIds(px)
    /\ px[1].id # px[3].id
    /\ py # px
    /\ pres

----------------------------------------------------------------------------
(* C11 *)

\* C11: a list and the list got from it by adding one file or by removing
\* one file differ in count, so their manifests compare unequal, also when
\* the file added or removed shares its id with another file of the list
C11_AddOrRemoveComparesUnequal ==
    /\ pmode = "add" =>
          /\ build_manifest(py).count = Some(Len(px) + 1)
          /\ build_manifest(py).count # build_manifest(px).count
          /\ ~pres
    /\ pmode = "remove" =>
          /\ build_manifest(py).count = Some(Len(px) - 1)
          /\ build_manifest(py).count # build_manifest(px).count
          /\ ~pres

\* a file is removed whose id and etag another file of the list has: the map
\* stays the same and the count differs
C11_Witness ==
    /\ pmode = "remove"
    /\ HasDuplicateIds(px)
    /\ build_manifest(py).map = build_manifest(px).map
    /\ ~pres

----------------------------------------------------------------------------
(* C12 *)

DistinctIds(files) == ~HasDuplicateIds(files)

\* C12: for a list with pairwise distinct ids, the empty list included, the
\* manifest compares equal to itself and its count is the number of keys of
\* its map
C12_DistinctIdsReflexiveAndCounted ==
    (pmode = "self" /\ DistinctIds(px)) =>
        /\ pres
        /\ Len(build_manifest(px).map) = 1
        /\ build_manifest(px).count =
              Some(Cardinality(DOMAIN build_manifest(px).map[1]))
        /\ DOMAIN build_manifest(px).map[1] = {px[i].id : i \in 1..Len(px)}

C12_Witness ==
    /\ pmode = "self"
    /\ DistinctIds(px)
    /\ Len(px) = 2
    /\ px[1].etag = px[2].etag
    /\ pres

----------------------------------------------------------------------------
(* C14 *)

\* the chunks of the files that have a download URL, in the order of the list
RECURSIVE TextOfDownloadable(_)
TextOfDownloadable(files) ==
    IF files = <<>> THEN <<>>
    ELSE (IF Head(files).downloadUrl = NoUrl THEN <<>>
          ELSE <<[name |-> Head(files).name, ver |-> Head(files).etag]>>)
         \o TextOfDownloadable(Tail(files))

\* C14: download_and_extract_text returns the texts of exactly the files
\* that have a download URL, each with its separator, in input order; a file
\* without URL adds nothing and raises nothing; when the retrieval of a file
\* fails the call raises and no text is returned
C14_DownloadConcatenatesOrRaises ==
    /\ pmode = "download" => pres /\ py = TextOfDownloadable(px)
    /\ pmode = "download_bad" => ~pres /\ py = <<>>

\* a list that mixes files with and without URL is downloaded
C14_Witness ==
    /\ pmode = "download"
    /\ Len(px) = 3
    /\ px[1].downloadUrl = NoUrl
    /\ px[2].downloadUrl # NoUrl
    /\ px[3].downloadUrl # NoUrl
    /\ px[2].id # px[3].id
    /\ Len(py) = 2

----------------------------------------------------------------------------
(* C13 *)

\* a creation whose source gave no text: the upload extracted to blank text,
\* or the files of the SharePoint listing were fetched and gave blank text
BlankSourceCreation ==
    /\ op.kind \in {"file", "sharepoint"}
    /\ op.text = <<>>
    /\ op.kind = "sharepoint" => Logged("download")

\* C13 as stated: a creation whose source gives no text builds and persists
\* no index, writes no config, and leaves every cache on disk and the
\* session as they were
C13_BlankSourceCreatesNothing ==
    BlankSourceCreation =>
        /\ ~Logged("build") /\ ~Logged("save") /\ ~Logged("open") /\ ~Logged("write")
        /\ NothingChanged

----------------------------------------------------------------------------
(* C15 *)

\* C15: load_cache_into_memory(name) writes no config and no artifact; when
\* it succeeds the session's cache is name and its index is the one loaded
\* from the artifact of name, in place of the index held before; when it
\* fails the session's cache name and index are the ones held before
C15_LoadTouchesOnlyTheSession ==
    op.kind = "load" =>
        /\ disk_cfg = op.pre.cfg
        /\ disk_idx = op.pre.idx
        /\ op.outcome \in {"done", "failed"}
        /\ op.outcome = "done" =>
              /\ current_cache_name = op.cache
              /\ disk_idx[op.cache] # None
              /\ qa = disk_idx[op.cache]
        /\ op.outcome = "failed" =>
              /\ current_cache_name = op.pre.cur
              /\ qa = op.pre.qa

\* another cache was active and its index differs from the one loaded
C15_Witness ==
    /\ op.kind = "load"
    /\ op.outcome = "done"
    /\ op.pre.cur # NoCache
    /\ op.pre.cur # op.cache
    /\ op.pre.qa # qa
    /\ qa = disk_idx[op.cache]

----------------------------------------------------------------------------
(* C16 *)

HasConfig(cfgs, n) == cfgs[n].st # "absent"

\* C16: whatever operations ran and however they ended, a name has a config
\* file only if an index artifact was persisted under it first; an operation
\* reaches the config write only after save_vectorstore returned or, for the
\* auto-sync toggle, for a name that has an artifact already; and a config
\* file that existed when an operation began still exists
C16_ConfigOnlyAfterArtifact ==
    /\ \A n \in Names : HasConfig(disk_cfg, n) => disk_idx[n] # None
    /\ \A n \in Names : HasConfig(op.pre.cfg, n) => HasConfig(disk_cfg, n)
    /\ pc \in {"cfg_open", "cfg_dump"} => disk_idx[op.cache] # None
    /\ (op.kind \in {"file", "sharepoint", "sync"} /\ Logged("open")) =>
          /\ Logged("save")
          /\ Precedes(op.log, "save", "open")

\* a creation persisted the artifact and then failed to write the config
C16_Witness ==
    /\ op.kind \in {"file", "sharepoint"}
    /\ op.outcome = "failed"
    /\ Logged("save")
    /\ ~HasConfig(disk_cfg, op.cache)
    /\ disk_idx[op.cache] # None

----------------------------------------------------------------------------
(* C17 *)

\* C17: whenever page_chat is at its query handling, the sync check of this
\* same run has returned and it was made for the cache that is active, however
\* that cache became active; no other operation leads to the query handling
C17_SyncReturnedBeforeQuery ==
    /\ pc = "chat" =>
          /\ op.kind = "sync"
          /\ op.outcome \in {"skipped", "failed", "unchanged", "done"}
          /\ op.cache = current_cache_name
    /\ op.kind \in {"file", "sharepoint", "load", "clear", "toggle"} => pc # "chat"

\* a cache with an index is active and its sync was made and found no change
C17_Witness ==
    /\ pc = "chat"
    /\ qa # None
    /\ op.kind = "sync"
    /\ op.cache = current_cache_name
    /\ op.outcome = "unchanged"

----------------------------------------------------------------------------
(* C20 *)

\* C20: in every state, and so at the end of every operation whether it
\* succeeded or failed, the session has no index exactly when it has no
\* active cache name
C20_IndexAbsentIffNameAbsent ==
    (qa = None) <=> (current_cache_name = NoCache)

\* a creation set the session and then failed to write the config
C20_Witness ==
    /\ op.kind = "sharepoint"
    /\ op.outcome = "failed"
    /\ op.pre.qa = None
    /\ qa # None
    /\ current_cache_name = op.cache

----------------------------------------------------------------------------
(* C19 *)

\* the config and the artifact of every cache but the one operated on are
\* what they were when the operation was entered
OtherCachesUntouched ==
    \A n \in Names \ {op.cache} :
        disk_cfg[n] = op.pre.cfg[n] /\ disk_idx[n] = op.pre.idx[n]

\* C19: a sync that completed changed, in the config of the active cache,
\* the manifest and nothing else; a saved auto-sync toggle changed the
\* autosync field and nothing else, and only a config of type sharepoint is
\* ever toggled; neither touches another cache's config or artifact
C19_OnlyTheFieldChanges ==
    /\ (SyncReturned /\ op.outcome = "done") =>
          /\ disk_cfg[op.cache].st = "ok"
          /\ disk_cfg[op.cache].cfg.type = EnteredCfgFile.cfg.type
          /\ disk_cfg[op.cache].cfg.link = EnteredCfgFile.cfg.link
          /\ disk_cfg[op.cache].cfg.autosync = EnteredCfgFile.cfg.autosync
          /\ disk_cfg[op.cache].cfg.manifest # EnteredCfgFile.cfg.manifest
          /\ OtherCachesUntouched
    /\ op.kind = "toggle" =>
          /\ op.pre.cfg[op.cache].st = "ok"
          /\ op.pre.cfg[op.cache].cfg.type = "sharepoint"
          /\ disk_idx = op.pre.idx
          /\ op.outcome # "crashed" =>
                qa = op.pre.qa /\ current_cache_name = op.pre.cur
          /\ OtherCachesUntouched
          /\ op.outcome = "done" =>
                /\ disk_cfg[op.cache].st = "ok"
                /\ disk_cfg[op.cache].cfg.type = op.pre.cfg[op.cache].cfg.type
                /\ disk_cfg[op.cache].cfg.link = op.pre.cfg[op.cache].cfg.link
                /\ disk_cfg[op.cache].cfg.manifest = op.pre.cfg[op.cache].cfg.manifest
                /\ disk_cfg[op.cache].cfg.autosync = op.cfg.autosync

\* the auto-sync flag of a cache with a non-empty manifest was switched
C19_Witness ==
    /\ op.kind = "toggle"
    /\ op.outcome = "done"
    /\ disk_cfg[op.cache].cfg.autosync # op.pre.cfg[op.cache].cfg.autosync
    /\ disk_cfg[op.cache].cfg.manifest.count = Some(2)
    /\ disk_cfg[op.cache].cfg.manifest = op.pre.cfg[op.cache].cfg.manifest

----------------------------------------------------------------------------
(* C18 *)

\* the config the sync writes: the one it read, with the manifest of the
\* listing it fetched
SyncValue ==
    [type |-> op.old.type, link |-> op.old.link, autosync |-> op.old.autosync,
     manifest |-> build_manifest(op.files)]

\* C18: when another operator saved the auto-sync setting of the cache
\* after the sync read its config and before the sync wrote it, the config
\* file holds the whole value of the last writer: the other operator's
\* value until the sync opens the file, and, once the sync has written, the
\* value the sync made from the config it had read, with the auto-sync flag
\* it had read and not the one saved in between
C18_LastWholeWriteWins ==
    (op.kind = "sync" /\ op.raced # None) =>
        /\ ~Logged("open") => disk_cfg[op.cache] = OkFile(op.raced[1])
        /\ op.outcome = "done" =>
              /\ disk_cfg[op.cache] = OkFile(SyncValue)
              /\ disk_cfg[op.cache].cfg.autosync = EnteredCfgFile.cfg.autosync

\* the other operator switched the flag off and the sync wrote it back on
C18_Witness ==
    /\ op.kind = "sync"
    /\ op.outcome = "done"
    /\ op.raced # None
    /\ op.raced[1].autosync = FALSE
    /\ disk_cfg[op.cache] = OkFile(SyncValue)
    /\ disk_cfg[op.cache].cfg.autosync

----------------------------------------------------------------------------
(* C21 *)

\* an operation of the session has ended: the page has run to its end, or the
\* sync of the chat page has returned
OperationEnded == pc \in {"end", "chat"}

\* the index in memory is the one of the artifact on disk under the active name
ActiveIndexIsPersisted == qa = LoadVectorstore(current_cache_name)

\* a cache was created under the name of a cache that existed
CreatedOverExisting ==
    /\ op.kind \in {"file", "sharepoint"}
    /\ op.pre.idx[op.cache] # None
    /\ Logged("save")

\* C21: at the end of every operation in which a cache is active, the index
\* in memory is the index of the artifact persisted under the active cache's
\* name, also after a creation under an existing or active name and after a
\* create or sync that failed part-way
C21_ActiveIndexIsThePersistedOne ==
    (OperationEnded /\ current_cache_name # NoCache) => ActiveIndexIsPersisted

\* a cache was created under the name of the active cache with another text,
\* the new artifact was saved and the config write failed
C21_Witness ==
    /\ pc = "end"
    /\ CreatedOverExisting
    /\ op.pre.cur = op.cache
    /\ op.outcome = "failed"
    /\ disk_idx[op.cache] # op.pre.idx[op.cache]
    /\ current_cache_name = op.cache
    /\ ActiveIndexIsPersisted

============================================================================
